---- MODULE Spec2Model ----
(***************************************************************************)
(* Model of the signaling session of momo's P2P mode:                      *)
(* P2PWebsocketSession (src/src/p2p/p2p_websocket_session.cpp).            *)
(*                                                                         *)
(* The session runs OnRead on the websocket strand; the peer-connection    *)
(* engine (RTCManager / RTCConnection) delivers its callbacks from its own *)
(* threads, so the statements of OnRead's offer branch interleave with     *)
(* engine callbacks.  The engine, the WatchDog and the Websocket read loop *)
(* are not part of the two source files and are modelled from their        *)
(* contract.                                                               *)
(***************************************************************************)
EXTENDS Integers, Sequences, FiniteSets, TLC

\* ------------------------------------------------------------------ bounds
MaxRead == 3        \* inbound texts handed to OnRead
MaxOffers == 2      \* well-formed offers among them (handles created)
MaxIce == 2         \* onIceCandidate callbacks delivered by the engine
MaxPings == 2       \* watchdog expiries

\* --------------------------------------------------------------- constants
WatchdogInterval == 30

\* ------------------------------------------------------ nlohmann::json values
JNull == [k |-> "null"]
JStr(x) == [k |-> "string", s |-> x]
\* an integer that fits an int
JInt(n) == [k |-> "integer", i |-> n]
\* the 64-bit integer 2^32 + n, which does not fit an int
JBigInt(n) == [k |-> "big_integer", low |-> n]
\* the number n + 1/2
JFloat(n) == [k |-> "float", whole |-> n]
JBool(v) == [k |-> "boolean", b |-> v]
JObj(fields) == [k |-> "object", f |-> fields]
\* the value that stands for a thrown json::type_error
TypeError == [k |-> "type_error"]

\* a text frame: either the serialisation of a json document or not json at all
Dump(j) == [txt |-> "json", doc |-> j]
GarbageText == [txt |-> "garbage"]

\* json::parse: a document, or json::parse_error
ParseError == [k |-> "parse_error"]
Parse(text) == IF text.txt = "json" THEN text.doc ELSE ParseError

\* json::operator[](key) on a non-const value: null becomes an object, a
\* missing key is inserted as null, any other kind of value throws type_error
At(j, key) ==
  CASE j.k = "null" -> JNull
    [] j.k = "object" -> IF key \in DOMAIN j.f THEN j.f[key] ELSE JNull
    [] OTHER -> TypeError

\* get<std::string>()
GetString(j) == IF j.k = "string" THEN j ELSE TypeError

\* get<int>(): a static_cast<int> of any number or boolean; 64-bit integers
\* are narrowed modulo 2^32, floats truncated, booleans become 0/1
GetInt(j) ==
  CASE j.k = "integer" -> JInt(j.i)
    [] j.k = "big_integer" -> JInt(j.low)
    [] j.k = "float" -> JInt(j.whole)
    [] j.k = "boolean" -> JInt(IF j.b THEN 1 ELSE 0)
    [] OTHER -> TypeError

\* a type lookup that falls back to "bye" when there is no string type
TypeOfDefault(text) ==
  LET j == Parse(text) IN
  IF j.k = "parse_error" THEN "parse_error"
  ELSE LET t == GetString(At(j, "type")) IN
       IF t.k = "type_error" THEN "bye" ELSE t.s

\* lines 93-104: the type of an inbound text, or the exception that ends OnRead
TypeOf(text) ==
  LET j == Parse(text) IN
  IF j.k = "parse_error" THEN "parse_error"
  ELSE LET t == GetString(At(j, "type")) IN
       IF t.k = "type_error" THEN "type_error" ELSE t.s

\* lines 108-112 and 130-134: recv_message["sdp"].get<std::string>()
SdpOf(text) == GetString(At(Parse(text), "sdp"))

\* a field lookup that takes the candidate line for the mid and the mid for
\* the candidate line
IceOfSwapped(text) ==
  LET ice == At(Parse(text), "ice")
      mid == GetString(At(ice, "candidate"))
      idx == GetInt(At(ice, "sdpMLineIndex"))
      cand == GetString(At(ice, "sdpMid"))
  IN IF mid.k = "type_error" \/ idx.k = "type_error" \/ cand.k = "type_error"
     THEN TypeError
     ELSE [k |-> "ice", sdpMid |-> mid.s, sdpMLineIndex |-> idx.i,
           candidate |-> cand.s]

\* lines 142-149: the three fields of recv_message["ice"]
IceOf(text) ==
  LET ice == At(Parse(text), "ice")
      mid == GetString(At(ice, "sdpMid"))
      idx == GetInt(At(ice, "sdpMLineIndex"))
      cand == GetString(At(ice, "candidate"))
  IN IF mid.k = "type_error" \/ idx.k = "type_error" \/ cand.k = "type_error"
     THEN TypeError
     ELSE [k |-> "ice", sdpMid |-> mid.s, sdpMLineIndex |-> idx.i,
           candidate |-> cand.s]

\* ---------------------------------------------------------- inbound texts
OfferText(s) == Dump(JObj([type |-> JStr("offer"), sdp |-> JStr(s)]))
AnswerText(s) == Dump(JObj([type |-> JStr("answer"), sdp |-> JStr(s)]))
IceObj(mid, idx, cand) ==
  JObj([sdpMid |-> mid, sdpMLineIndex |-> idx, candidate |-> cand])
CandidateText(mid, idx, cand) ==
  Dump(JObj([type |-> JStr("candidate"), ice |-> IceObj(mid, idx, cand)]))
TypeOnlyText(t) == Dump(JObj([type |-> JStr(t)]))

OfferSdps == {"v=0 o1"}

WellFormedTexts ==
  {OfferText(s) : s \in OfferSdps}
  \cup {AnswerText("v=0 a1"),
        CandidateText(JStr("0"), JInt(0), JStr("cand1")),
        TypeOnlyText("close"), TypeOnlyText("bye"), TypeOnlyText("register")}

\* not json, no string-valued type, or a type OnRead does not know
UndecodableTexts ==
  {GarbageText, Dump(JInt(7)),
   Dump(JObj([sdp |-> JStr("v=0 o1")])),
   Dump(JObj([type |-> JInt(1)])),
   TypeOnlyText("ping")}

\* a known type whose required field is absent or of another kind
BadFieldTexts ==
  {TypeOnlyText("offer"),
   Dump(JObj([type |-> JStr("offer"), sdp |-> JInt(0)])),
   TypeOnlyText("answer"),
   Dump(JObj([type |-> JStr("candidate"), ice |-> JStr("cand1")])),
   CandidateText(JStr("0"), JStr("0"), JStr("cand1")),
   CandidateText(JStr("0"), JFloat(1), JStr("cand1")),
   CandidateText(JStr("0"), JBool(TRUE), JStr("cand1")),
   CandidateText(JStr("0"), JBigInt(1), JStr("cand1"))}

Texts == WellFormedTexts \cup UndecodableTexts \cup BadFieldTexts

\* ------------------------------------------------------- outbound messages
PingMessage == Dump(JObj([type |-> JStr("ping")]))
AcceptMessage ==
  Dump(JObj([type |-> JStr("accept"), isExistUser |-> JBool(TRUE)]))
AnswerMessage(sdp) == Dump(JObj([type |-> JStr("answer"), sdp |-> JStr(sdp)]))
\* a candidate message with the mid and the candidate line swapped
CandidateMessageSwapped(mid, idx, sdp) ==
  Dump(JObj([type |-> JStr("candidate"),
             ice |-> JObj([candidate |-> JStr(mid),
                           sdpMLineIndex |-> JInt(idx),
                           sdpMid |-> JStr(sdp)])]))

CandidateMessage(mid, idx, sdp) ==
  Dump(JObj([type |-> JStr("candidate"),
             ice |-> JObj([candidate |-> JStr(sdp),
                           sdpMLineIndex |-> JInt(idx),
                           sdpMid |-> JStr(mid)])]))

\* ------------------------------------------------- what the engine reports
IceStates == {"new", "connected"}
\* the description createAnswer produces when the callback of handle origin
\* asked handle on for it
EngineAnswer(origin, on) == <<"v=0 answer", origin, on>>
\* the n-th local candidate the engine discovers
EngineCandidate(n) ==
  [sdpMid |-> <<"mid", n>>, sdpMLineIndex |-> n, candidate |-> <<"host", n>>]

NoConnection == 0

VARIABLES
  connection_,   \* the session's handle: NoConnection or a handle id
  rtc_state_,    \* the stored ICE connection state
  watchdog_,     \* [interval, armed]: the WatchDog member
  wpc,           \* "idle", or "expired" while the watchdog's callback is due
  pc,            \* OnRead's position: "idle", "created", "assigned", "accepted"
  recv,          \* recv_string of the OnRead call the last step made, if any
  nRead,         \* texts handed to OnRead so far
  sdp,           \* OnRead's local sdp while an offer is being processed
  closed,        \* a read completed with an error: the read loop has stopped
  crashed,       \* the process died on a null handle
  no_google_stun,\* conn_settings_.no_google_stun
  offers,        \* per handle created: the offer it was created for (its sdp,
                 \* whether the session was idle, whether a close/bye came
                 \* after it, whether one came before its answer was sent,
                 \* and the answers sent for it)
  live,          \* handles created and not yet released
  pendLocal,     \* handles whose setOffer callback is still to be delivered
  pendAnswer,    \* createAnswer callbacks still to be delivered
  cbFrom,        \* handle whose candidate / state callback the last step ran
  cbArg,         \* the candidate or the state that callback was given
  iceLog,        \* the candidates the engine has reported, in order
  sent,          \* texts passed to ws_->SendText, in order
  calls          \* calls made into the engine, in order

vars == <<connection_, rtc_state_, watchdog_, wpc, pc, recv, nRead, sdp, closed,
          crashed, no_google_stun, offers, live, pendLocal, pendAnswer,
          cbFrom, cbArg, iceLog, sent, calls>>

sessionVars == <<connection_, rtc_state_, watchdog_>>
engineVars == <<offers, live, pendLocal, pendAnswer, calls>>
readVars == <<pc, nRead, sdp, closed>>

\* the step is no call of OnRead and no candidate / state callback
NoText == [txt |-> "none"]
NoArg == [arg |-> "none"]
\* the step is no candidate / state callback of the engine
NoCallback == cbFrom' = NoConnection /\ cbArg' = NoArg /\ iceLog' = iceLog
NoInput == recv' = NoText /\ NoCallback

Handles == 1..Len(offers)

CountOf(seq, S) == Cardinality({i \in DOMAIN seq : seq[i] \in S})

\* a constructor that enables the watchdog at once
InitArmed ==
  /\ connection_ = NoConnection
  /\ rtc_state_ \in IceStates
  /\ watchdog_ = [interval |-> WatchdogInterval, armed |-> TRUE]
  /\ wpc = "idle"
  /\ pc = "idle"
  /\ recv = NoText
  /\ nRead = 0
  /\ sdp = ""
  /\ closed = FALSE
  /\ crashed = FALSE
  /\ no_google_stun \in BOOLEAN
  /\ offers = <<>>
  /\ live = {}
  /\ pendLocal = {}
  /\ pendAnswer = {}
  /\ cbFrom = NoConnection
  /\ cbArg = NoArg
  /\ iceLog = <<>>
  /\ sent = <<>>
  /\ calls = <<>>

\* constructor, lines 15-22: no handle, a watchdog that is not enabled;
\* rtc_state_ has no initialiser
Init ==
  /\ connection_ = NoConnection
  /\ rtc_state_ \in IceStates
  /\ watchdog_ = [interval |-> 0, armed |-> FALSE]
  /\ wpc = "idle"
  /\ pc = "idle"
  /\ recv = NoText
  /\ nRead = 0
  /\ sdp = ""
  /\ closed = FALSE
  /\ crashed = FALSE
  /\ no_google_stun \in BOOLEAN
  /\ offers = <<>>
  /\ live = {}
  /\ pendLocal = {}
  /\ pendAnswer = {}
  /\ cbFrom = NoConnection
  /\ cbArg = NoArg
  /\ iceLog = <<>>
  /\ sent = <<>>
  /\ calls = <<>>

\* ws_->SendText
SendText(text) == sent' = Append(sent, text)

\* a text is delivered to OnRead: the read loop is running and no OnRead is
\* in progress
ReadReady == pc = "idle" /\ ~closed /\ ~crashed /\ nRead < MaxRead

Receive(text) ==
  /\ recv' = text
  /\ NoCallback
  /\ nRead' = nRead + 1
  /\ closed' = closed

\* lines 83-87: a read that completed with an error (or the remote close)
OnReadError ==
  /\ pc = "idle" /\ ~closed /\ ~crashed
  /\ closed' = TRUE
  /\ NoInput
  /\ UNCHANGED <<pc, nRead, sdp, wpc, crashed, no_google_stun, sent>>
  /\ UNCHANGED sessionVars
  /\ UNCHANGED engineVars

\* lines 93-104 and 160-162: parse error, no string type, unknown type
OnReadIgnored(text) ==
  /\ ReadReady
  /\ TypeOf(text) \notin
       {"offer", "answer", "candidate", "close", "bye", "register"}
  /\ Receive(text)
  /\ UNCHANGED <<pc, sdp, wpc, crashed, no_google_stun, sent>>
  /\ UNCHANGED sessionVars
  /\ UNCHANGED engineVars

\* lines 166-173: the ICE servers of rtc_config
IceServers ==
  IF no_google_stun THEN <<>> ELSE <<"stun:stun.l.google.com:19302">>

\* line 174: the handle rtc_manager_->createConnection returns
NewHandle == Len(offers) + 1

\* lines 106-114, 165-178: an offer; CreateRTCConnection has returned and the
\* assignment to connection_ is still to be done
OnReadOffer(text) ==
  /\ ReadReady
  /\ TypeOf(text) = "offer"
  /\ SdpOf(text).k = "type_error" \/ Len(offers) < MaxOffers
  /\ Receive(text)
  /\ IF SdpOf(text).k = "type_error"
     THEN UNCHANGED <<pc, sdp, offers, live, calls>>
     ELSE /\ sdp' = SdpOf(text).s
          /\ offers' = Append(offers, [sdp |-> SdpOf(text).s,
                                       idle |-> connection_ = NoConnection,
                                       closeSeen |-> FALSE,
                                       early |-> FALSE,
                                       answers |-> 0])
          /\ live' = live \cup {NewHandle}
          /\ calls' = calls \o
               <<[op |-> "createConnection", h |-> NewHandle,
                  servers |-> IceServers],
                 [op |-> "initTracks", h |-> NewHandle]>>
          /\ pc' = "created"
  /\ UNCHANGED <<wpc, crashed, no_google_stun, sent, pendLocal, pendAnswer>>
  /\ UNCHANGED sessionVars

\* first-offer-wins: a handle the session holds is kept
AssignedHandleFirst ==
  IF connection_ # NoConnection THEN connection_ ELSE Len(offers)

\* line 114: the value assigned to connection_
AssignedHandle == Len(offers)

\* line 114: connection_ = ...; the previous handle loses its only owner
AssignConnection ==
  /\ pc = "created" /\ ~crashed
  /\ connection_' = AssignedHandle
  /\ live' = (live \ {connection_}) \cup {AssignedHandle}
  /\ pc' = "assigned"
  /\ NoInput
  /\ UNCHANGED <<rtc_state_, watchdog_, wpc, nRead, sdp, closed, crashed,
                 no_google_stun, offers, pendLocal, pendAnswer, sent, calls>>

\* setOffer that asks for the answer at once instead of in its callback
SetOfferEager ==
  /\ pc = "assigned" /\ ~crashed
  /\ calls' = calls \o <<[op |-> "setOffer", h |-> connection_, sdp |-> sdp],
                          [op |-> "createAnswer", h |-> connection_]>>
  /\ pendLocal' = pendLocal
  /\ pendAnswer' = pendAnswer \cup
       {[origin |-> connection_, on |-> connection_,
         desc |-> EngineAnswer(connection_, connection_)]}
  /\ pc' = "idle"
  /\ sdp' = ""
  /\ NoInput
  /\ UNCHANGED <<wpc, nRead, closed, crashed, no_google_stun, offers, live,
                 sent>>
  /\ UNCHANGED sessionVars

\* line 115: connection_->setOffer(sdp, callback)
SetOffer ==
  /\ pc = "assigned" /\ ~crashed
  /\ calls' = Append(calls, [op |-> "setOffer", h |-> connection_,
                             sdp |-> sdp])
  /\ pendLocal' = pendLocal \cup {connection_}
  /\ pc' = "idle"
  /\ sdp' = ""
  /\ NoInput
  /\ UNCHANGED <<wpc, nRead, closed, crashed, no_google_stun, offers, live,
                 pendAnswer, sent>>
  /\ UNCHANGED sessionVars

\* lines 125-135: an answer
OnReadAnswer(text) ==
  /\ ReadReady
  /\ TypeOf(text) = "answer"
  /\ Receive(text)
  /\ IF connection_ = NoConnection \/ SdpOf(text).k = "type_error"
     THEN UNCHANGED calls
     ELSE calls' = Append(calls, [op |-> "setAnswer", h |-> connection_,
                                  sdp |-> SdpOf(text).s])
  /\ UNCHANGED <<pc, sdp, wpc, crashed, no_google_stun, sent, offers, live,
                 pendLocal, pendAnswer>>
  /\ UNCHANGED sessionVars

\* a candidate branch without the check of connection_
OnReadCandidateNoGuard(text) ==
  /\ ReadReady
  /\ TypeOf(text) = "candidate"
  /\ Receive(text)
  /\ IF IceOf(text).k = "type_error"
     THEN UNCHANGED calls
     ELSE calls' = Append(calls, [op |-> "addIceCandidate", h |-> connection_,
                                  sdpMid |-> IceOf(text).sdpMid,
                                  sdpMLineIndex |-> IceOf(text).sdpMLineIndex,
                                  candidate |-> IceOf(text).candidate])
  /\ UNCHANGED <<pc, sdp, wpc, crashed, no_google_stun, sent, offers, live,
                 pendLocal, pendAnswer>>
  /\ UNCHANGED sessionVars

\* lines 136-150: a candidate
OnReadCandidate(text) ==
  /\ ReadReady
  /\ TypeOf(text) = "candidate"
  /\ Receive(text)
  /\ IF connection_ = NoConnection \/ IceOf(text).k = "type_error"
     THEN UNCHANGED calls
     ELSE calls' = Append(calls, [op |-> "addIceCandidate", h |-> connection_,
                                  sdpMid |-> IceOf(text).sdpMid,
                                  sdpMLineIndex |-> IceOf(text).sdpMLineIndex,
                                  candidate |-> IceOf(text).candidate])
  /\ UNCHANGED <<pc, sdp, wpc, crashed, no_google_stun, sent, offers, live,
                 pendLocal, pendAnswer>>
  /\ UNCHANGED sessionVars

\* close and bye that leave the handle in place
ClosedHandleKept == connection_

\* line 152: the value close and bye assign to connection_
ClosedHandle == NoConnection

\* a close branch that also stops the watchdog
OnReadCloseDisarm(text) ==
  /\ ReadReady
  /\ TypeOf(text) \in {"close", "bye"}
  /\ Receive(text)
  /\ connection_' = ClosedHandle
  /\ live' = (live \ {connection_}) \cup ({ClosedHandle} \ {NoConnection})
  /\ offers' = [h \in DOMAIN offers |->
                  [offers[h] EXCEPT !.closeSeen = TRUE,
                                    !.early = @ \/ offers[h].answers = 0]]
  /\ watchdog_' = [watchdog_ EXCEPT !.armed = FALSE]
  /\ UNCHANGED <<rtc_state_, pc, sdp, wpc, crashed, no_google_stun,
                 sent, pendLocal, pendAnswer, calls>>

\* lines 151-152: close or bye; the handle loses its only owner
OnReadClose(text) ==
  /\ ReadReady
  /\ TypeOf(text) \in {"close", "bye"}
  /\ Receive(text)
  /\ connection_' = ClosedHandle
  /\ live' = (live \ {connection_}) \cup ({ClosedHandle} \ {NoConnection})
  /\ offers' = [h \in DOMAIN offers |->
                  [offers[h] EXCEPT !.closeSeen = TRUE,
                                    !.early = @ \/ offers[h].answers = 0]]
  /\ UNCHANGED <<rtc_state_, watchdog_, pc, sdp, wpc, crashed, no_google_stun,
                 sent, pendLocal, pendAnswer, calls>>

\* a register branch that sends no accept message
OnReadRegisterSilent(text) ==
  /\ ReadReady
  /\ TypeOf(text) = "register"
  /\ Receive(text)
  /\ pc' = "accepted"
  /\ UNCHANGED <<sdp, wpc, crashed, no_google_stun, sent>>
  /\ UNCHANGED sessionVars
  /\ UNCHANGED engineVars

\* lines 153-158: register; the accept message is sent and the watchdog is
\* still to be enabled
OnReadRegister(text) ==
  /\ ReadReady
  /\ TypeOf(text) = "register"
  /\ Receive(text)
  /\ SendText(AcceptMessage)
  /\ pc' = "accepted"
  /\ UNCHANGED <<sdp, wpc, crashed, no_google_stun>>
  /\ UNCHANGED sessionVars
  /\ UNCHANGED engineVars

\* WatchDog::Enable: remember the interval and start the timer
WatchdogEnable(w, interval) == [interval |-> interval, armed |-> TRUE]

\* WatchDog::Reset: restart the timer with the remembered interval
WatchdogReset(w) == [w EXCEPT !.armed = TRUE]

\* line 159: watchdog_.Enable(30)
EnableWatchdog ==
  /\ pc = "accepted" /\ ~crashed
  /\ watchdog_' = WatchdogEnable(watchdog_, WatchdogInterval)
  /\ pc' = "idle"
  /\ NoInput
  /\ UNCHANGED <<connection_, rtc_state_, wpc, nRead, sdp, closed, crashed,
                 no_google_stun, sent>>
  /\ UNCHANGED engineVars

\* the timer of an armed WatchDog runs out: the timer is single-shot and the
\* callback given to the constructor (line 20) becomes due
WatchdogTimeout ==
  /\ watchdog_.armed /\ wpc = "idle" /\ ~crashed
  /\ CountOf(sent, {PingMessage}) < MaxPings
  /\ watchdog_' = [watchdog_ EXCEPT !.armed = FALSE]
  /\ wpc' = "expired"
  /\ NoInput
  /\ UNCHANGED <<connection_, rtc_state_, no_google_stun, crashed, sent>>
  /\ UNCHANGED readVars
  /\ UNCHANGED engineVars

\* a watchdog callback that pings without restarting the timer
OnWatchdogExpiredOnce ==
  /\ wpc = "expired" /\ ~crashed
  /\ SendText(PingMessage)
  /\ wpc' = "idle"
  /\ NoInput
  /\ UNCHANGED <<connection_, rtc_state_, watchdog_, no_google_stun, crashed>>
  /\ UNCHANGED readVars
  /\ UNCHANGED engineVars

\* a watchdog callback that takes the expiry for a timeout of the peer and
\* releases the handle
OnWatchdogExpiredRelease ==
  /\ wpc = "expired" /\ ~crashed
  /\ SendText(PingMessage)
  /\ watchdog_' = WatchdogReset(watchdog_)
  /\ wpc' = "idle"
  /\ connection_' = NoConnection
  /\ live' = live \ {connection_}
  /\ NoInput
  /\ UNCHANGED <<rtc_state_, no_google_stun, crashed, offers, pendLocal,
                 pendAnswer, calls>>
  /\ UNCHANGED readVars

\* lines 45-51
OnWatchdogExpired ==
  /\ wpc = "expired" /\ ~crashed
  /\ SendText(PingMessage)
  /\ watchdog_' = WatchdogReset(watchdog_)
  /\ wpc' = "idle"
  /\ NoInput
  /\ UNCHANGED <<connection_, rtc_state_, no_google_stun, crashed>>
  /\ UNCHANGED readVars
  /\ UNCHANGED engineVars

\* a setOffer callback that never asks for the answer
OnLocalDescriptionNoAnswer(h) ==
  /\ h \in pendLocal /\ ~crashed
  /\ pendLocal' = pendLocal \ {h}
  /\ NoInput
  /\ UNCHANGED <<wpc, crashed, no_google_stun, offers, live, sent, calls,
                 pendAnswer>>
  /\ UNCHANGED sessionVars
  /\ UNCHANGED readVars

\* lines 115-116: the callback given to setOffer runs for handle h; it uses
\* whatever connection_ holds now.  On a null connection_ the call is
\* undefined: the process dies, or the call goes nowhere.
OnLocalDescription(h) ==
  /\ h \in pendLocal /\ ~crashed
  /\ pendLocal' = pendLocal \ {h}
  /\ IF connection_ = NoConnection
     THEN /\ crashed' \in BOOLEAN
          /\ UNCHANGED <<calls, pendAnswer>>
     ELSE /\ pendAnswer' = pendAnswer \cup
               {[origin |-> h, on |-> connection_,
                 desc |-> EngineAnswer(h, connection_)]}
          /\ calls' = Append(calls, [op |-> "createAnswer", h |-> connection_])
          /\ UNCHANGED crashed
  /\ NoInput
  /\ UNCHANGED <<wpc, no_google_stun, offers, live, sent>>
  /\ UNCHANGED sessionVars
  /\ UNCHANGED readVars

\* lines 117-123: the callback given to createAnswer runs with the engine's
\* description
OnAnswerCreated(p) ==
  /\ p \in pendAnswer /\ ~crashed
  /\ pendAnswer' = pendAnswer \ {p}
  /\ SendText(AnswerMessage(p.desc))
  /\ offers' = [offers EXCEPT ![p.origin].answers = @ + 1]
  /\ NoInput
  /\ UNCHANGED <<wpc, crashed, no_google_stun, live, pendLocal, calls>>
  /\ UNCHANGED sessionVars
  /\ UNCHANGED readVars

\* a state callback that only logs the state
onIceConnectionStateChangeLogOnly(h, new_state) ==
  /\ h \in Handles /\ ~crashed
  /\ cbFrom' = h
  /\ cbArg' = [state |-> new_state]
  /\ recv' = NoText
  /\ UNCHANGED <<connection_, rtc_state_, watchdog_, wpc, crashed,
                 no_google_stun, offers, live, pendLocal, pendAnswer, iceLog,
                 sent, calls>>
  /\ UNCHANGED readVars

\* lines 180-187: the engine reports a state of handle h
onIceConnectionStateChange(h, new_state) ==
  /\ h \in Handles /\ ~crashed
  /\ rtc_state_' = new_state
  /\ cbFrom' = h
  /\ cbArg' = [state |-> new_state]
  /\ recv' = NoText
  /\ UNCHANGED <<connection_, watchdog_, wpc, crashed, no_google_stun, offers,
                 live, pendLocal, pendAnswer, iceLog, sent, calls>>
  /\ UNCHANGED readVars

\* lines 189-200: the engine reports a local candidate of handle h
onIceCandidate(h, c) ==
  /\ h \in Handles /\ ~crashed
  /\ Len(iceLog) < MaxIce
  /\ c = EngineCandidate(Len(iceLog) + 1)
  /\ iceLog' = Append(iceLog, c)
  /\ SendText(CandidateMessage(c.sdpMid, c.sdpMLineIndex, c.candidate))
  /\ cbFrom' = h
  /\ cbArg' = c
  /\ recv' = NoText
  /\ UNCHANGED <<wpc, crashed, no_google_stun, offers, live, pendLocal,
                 pendAnswer, calls>>
  /\ UNCHANGED sessionVars
  /\ UNCHANGED readVars

Next ==
  \/ OnReadError
  \/ \E text \in Texts : OnReadIgnored(text)
  \/ \E text \in Texts : OnReadOffer(text)
  \/ AssignConnection
  \/ SetOffer
  \/ \E text \in Texts : OnReadAnswer(text)
  \/ \E text \in Texts : OnReadCandidate(text)
  \/ \E text \in Texts : OnReadClose(text)
  \/ \E text \in Texts : OnReadRegister(text)
  \/ EnableWatchdog
  \/ WatchdogTimeout
  \/ OnWatchdogExpired
  \/ \E h \in pendLocal : OnLocalDescription(h)
  \/ \E p \in pendAnswer : OnAnswerCreated(p)
  \/ \E h \in Handles, st \in IceStates : onIceConnectionStateChange(h, st)
  \/ \E h \in Handles, n \in 1..MaxIce : onIceCandidate(h, EngineCandidate(n))

Spec == Init /\ [][Next]_vars

\* the timer of an armed watchdog runs out in the end, and the io_context
\* runs a callback that is due
LiveSpec ==
  Spec /\ WF_vars(WatchdogTimeout) /\ WF_vars(OnWatchdogExpired)

TypeOK ==
  /\ connection_ \in {NoConnection} \cup Handles
  /\ rtc_state_ \in IceStates
  /\ pc \in {"idle", "created", "assigned", "accepted"}
  /\ wpc \in {"idle", "expired"}
  /\ nRead \in 0..MaxRead
  /\ live \subseteq Handles

\* ------------------------------------------------------------------ claims
\* texts whose document is an object with the string t as its type
TextsOfType(t) ==
  {x \in Texts : /\ x.txt = "json"
                 /\ x.doc.k = "object"
                 /\ "type" \in DOMAIN x.doc.f
                 /\ x.doc.f.type = JStr(t)}

\* OnRead is between the statements of its offer branch for handle h
InOffer(h) == pc \in {"created", "assigned"} /\ h = Len(offers)

\* the engine has delivered every callback that stems from the offer of h
Delivered(h) ==
  /\ ~InOffer(h)
  /\ h \notin pendLocal
  /\ \A p \in pendAnswer : p.origin # h

IndicesOf(op, h) == {i \in DOMAIN calls : calls[i].op = op /\ calls[i].h = h}

AnswersSent ==
  Cardinality({i \in DOMAIN sent :
                 /\ "type" \in DOMAIN sent[i].doc.f
                 /\ sent[i].doc.f.type = JStr("answer")})

C2_CallsOfOffer ==
  \A h \in Handles :
    /\ Cardinality(IndicesOf("createConnection", h)) = 1
    /\ Cardinality(IndicesOf("setOffer", h)) = IF InOffer(h) THEN 0 ELSE 1
    /\ \A i \in IndicesOf("setOffer", h) :
         /\ calls[i].sdp = offers[h].sdp
         /\ \A j \in IndicesOf("createConnection", h) : j < i

C2_CreateAnswerStep ==
  Len(calls') > Len(calls) /\ calls'[Len(calls')].op = "createAnswer" =>
    /\ \E h \in pendLocal : pendLocal' = pendLocal \ {h}
    /\ Len(calls') = Len(calls) + 1

C2_AnswerStep ==
  AnswersSent' # AnswersSent =>
    \E p \in pendAnswer :
      /\ pendAnswer' = pendAnswer \ {p}
      /\ sent' = Append(sent, Dump(JObj([type |-> JStr("answer"),
                                          sdp |-> JStr(p.desc)])))

C2_OfferSequence ==
  /\ [](C2_CallsOfOffer)
  /\ [][C2_CreateAnswerStep]_vars
  /\ [][C2_AnswerStep]_vars

C2_Witness ==
  /\ Len(offers) = 1 /\ pc = "idle"
  /\ Cardinality(IndicesOf("setOffer", 1)) = 1
  /\ Cardinality(IndicesOf("createAnswer", 1)) = 1
  /\ AnswersSent = 1

\* C3 as stated: at most one handle created by the session is live in every
\* reachable state, the steps of an offer included.
C3_OneLiveHandle == Cardinality(live) <= 1

\* C4: when the N-th offer has been processed and no close/bye came after
\* it, the session's handle is the one created for it and no earlier handle
\* is live.
C4_LastOfferWins ==
  \A n \in Handles :
    n = Len(offers) /\ ~InOffer(n) /\ ~offers[n].closeSeen =>
      connection_ = n /\ live = {n}

C4_Witness ==
  /\ Len(offers) = 2 /\ pc = "idle"
  /\ ~offers[2].closeSeen /\ ~offers[1].closeSeen
  /\ connection_ = 2 /\ live = {2}

\* C5 as stated: a step that delivers a callback of a handle the session has
\* released sends nothing and calls nothing.
C5_StaleStep ==
  \/ cbFrom' # NoConnection /\ cbFrom' \notin live
  \/ \E h \in pendLocal \ live : pendLocal' = pendLocal \ {h}
  \/ \E p \in pendAnswer : p.on \notin live /\ pendAnswer' = pendAnswer \ {p}

C5_NoStaleCallback == [][C5_StaleStep => sent' = sent /\ calls' = calls]_vars

\* C6: an answer or candidate received while the session holds no handle
\* makes no engine call, sends nothing and leaves the handle, the ICE state
\* and the watchdog as they were.
C6_Step ==
  /\ recv' \in TextsOfType("answer") \cup TextsOfType("candidate")
  /\ connection_ = NoConnection
  => UNCHANGED <<calls, sent, connection_, rtc_state_, watchdog_, live>>

C6_NoHandleIgnored == [][C6_Step]_vars

C6_Witness ==
  /\ recv \in TextsOfType("answer") \cup TextsOfType("candidate")
  /\ SdpOf(recv).k = "string" \/ IceOf(recv).k = "ice"
  /\ connection_ = NoConnection
  /\ Len(offers) = 1

\* C7: close or bye leaves the session without a handle and with no live
\* handle, and is a no-op without one; from then until the next offer the
\* session holds no handle and an answer or candidate makes no engine call.
C7_Closing == TextsOfType("close") \cup TextsOfType("bye")

C7_CloseStep ==
  recv' \in C7_Closing =>
    /\ connection_' = NoConnection
    /\ live' = {}
    /\ UNCHANGED <<calls, sent, rtc_state_, watchdog_, pendLocal, pendAnswer>>
    /\ connection_ = NoConnection => UNCHANGED live

C7_AfterClose == Len(offers) >= 1 /\ offers[Len(offers)].closeSeen

C7_IgnoredStep ==
  /\ C7_AfterClose
  /\ recv' \in TextsOfType("answer") \cup TextsOfType("candidate")
  => calls' = calls /\ connection_' = NoConnection

C7_CloseReleases ==
  /\ [][C7_CloseStep]_vars
  /\ [][C7_IgnoredStep]_vars
  /\ [](C7_AfterClose => connection_ = NoConnection /\ live = {})

C7_Witness ==
  /\ C7_AfterClose
  /\ recv \in TextsOfType("candidate") /\ IceOf(recv).k = "ice"
  /\ offers[1].idle
  /\ connection_ = NoConnection /\ live = {}
  /\ Len(calls) = 3

\* C8: a text that is not json, has no string type or has an unknown type
\* changes nothing: no message, no engine call, same handle, ICE state and
\* watchdog, however often it is processed.
C8_Step ==
  recv' \in UndecodableTexts =>
    UNCHANGED <<sent, calls, connection_, rtc_state_, watchdog_, live, pc,
                pendLocal, pendAnswer>>

C8_Dropped == [][C8_Step]_vars

C8_Witness ==
  /\ recv \in UndecodableTexts
  /\ nRead = 3
  /\ connection_ # NoConnection
  /\ watchdog_.armed

\* C9: register sends exactly one accept message with isExistUser true and
\* nothing else; the watchdog is armed, with 30 seconds, only by the step
\* that follows the send; neither step touches the handle.
C9_Accept ==
  Dump(JObj([type |-> JStr("accept"), isExistUser |-> JBool(TRUE)]))

C9_SendStep ==
  recv' \in TextsOfType("register") =>
    /\ sent' = Append(sent, C9_Accept)
    /\ pc' = "accepted"
    /\ UNCHANGED <<watchdog_, connection_, live, calls>>

C9_ArmStep ==
  pc = "accepted" /\ pc' # "accepted" =>
    /\ watchdog_' = [interval |-> 30, armed |-> TRUE]
    /\ UNCHANGED <<sent, connection_, live, calls>>

C9_OnlyRegisterEnables ==
  watchdog_'.interval # watchdog_.interval => pc = "accepted" /\ pc' = "idle"

C9_Register ==
  /\ [][C9_SendStep]_vars
  /\ [][C9_ArmStep]_vars
  /\ [][C9_OnlyRegisterEnables]_vars
  /\ [](watchdog_.interval # 0 =>
          watchdog_.interval = 30 /\ \E i \in DOMAIN sent : sent[i] = C9_Accept)

C9_Witness ==
  /\ pc = "idle"
  /\ watchdog_ = [interval |-> 30, armed |-> TRUE]
  /\ sent = <<C9_Accept>>
  /\ connection_ # NoConnection

\* C10: the watchdog callback sends exactly one ping and leaves the watchdog
\* armed; once enabled the watchdog is armed whenever its callback is not
\* due; and with the timer and the io_context making progress the pings go
\* on (up to the bound on pings) unless the process has died.
C10_Ping == Dump(JObj([type |-> JStr("ping")]))

C10_Pings == Cardinality({i \in DOMAIN sent : sent[i] = C10_Ping})

C10_ExpiryStep ==
  wpc = "expired" /\ wpc' = "idle" =>
    /\ sent' = Append(sent, C10_Ping)
    /\ watchdog_'.armed
    /\ watchdog_'.interval = watchdog_.interval

C10_Heartbeat ==
  /\ [][C10_ExpiryStep]_vars
  /\ [](watchdog_.interval # 0 /\ wpc = "idle" => watchdog_.armed)
  /\ \A k \in 0..(MaxPings - 1) :
       (watchdog_.interval # 0 /\ C10_Pings = k) ~> (C10_Pings > k \/ crashed)

C10_Witness ==
  /\ C10_Pings = 2
  /\ watchdog_.armed /\ wpc = "idle"

\* C11: the expiry of the watchdog never closes the session: neither the
\* timer running out nor the callback OnWatchdogExpired changes the handle,
\* the ICE state, the open / closed status of the transport or anything of
\* the engine, and the callback's only outbound effect is one ping.
C11_ExpiryFrame ==
  wpc' # wpc =>
    /\ UNCHANGED <<connection_, live, rtc_state_, closed, crashed, pc, offers,
                   pendLocal, pendAnswer, calls>>
    /\ IF wpc = "expired" THEN sent' = Append(sent, C10_Ping) ELSE sent' = sent

C11_ExpiryKeepsSession == [][C11_ExpiryFrame]_vars

C11_Witness ==
  /\ wpc = "idle" /\ ~closed
  /\ connection_ # NoConnection /\ connection_ \in live
  /\ Len(sent) > 0 /\ sent[Len(sent)] = C10_Ping

\* C12: every onIceCandidate callback sends, in the step of the callback
\* itself, exactly one candidate message that carries the callback's sdpMid,
\* sdpMLineIndex and candidate, so the candidate messages sent are, in
\* order, the candidates the engine reported; no inbound message has to
\* come first.
C12_Message(c) ==
  [txt |-> "json",
   doc |-> [k |-> "object",
            f |-> [type |-> [k |-> "string", s |-> "candidate"],
                   ice |-> [k |-> "object",
                            f |-> [candidate |-> [k |-> "string",
                                                  s |-> c.candidate],
                                   sdpMLineIndex |-> [k |-> "integer",
                                                      i |-> c.sdpMLineIndex],
                                   sdpMid |-> [k |-> "string",
                                               s |-> c.sdpMid]]]]]]

C12_IsCandidate(m) == "ice" \in DOMAIN m.doc.f

C12_CandidatesSent == SelectSeq(sent, C12_IsCandidate)

C12_CallbackStep ==
  iceLog' # iceLog =>
    /\ Len(iceLog') = Len(iceLog) + 1
    /\ cbArg' = iceLog'[Len(iceLog')]
    /\ sent' = Append(sent, C12_Message(cbArg'))
    /\ UNCHANGED <<connection_, live, calls>>

C12_InOrder ==
  C12_CandidatesSent = [i \in DOMAIN iceLog |-> C12_Message(iceLog[i])]

C13_ChangeStep ==
  rtc_state_' # rtc_state_ =>
    /\ cbFrom' # NoConnection
    /\ cbArg' = [state |-> rtc_state_']

C13_CallbackStep ==
  cbFrom' # NoConnection /\ "state" \in DOMAIN cbArg' =>
    /\ rtc_state_' = cbArg'.state
    /\ UNCHANGED <<sent, calls, connection_, live, watchdog_, wpc, pc, closed>>

C13_OtherStep ==
  recv' # NoText \/ pc' # pc \/ wpc' # wpc \/ sent' # sent =>
    rtc_state_' = rtc_state_

C13_OnlyStateCallback ==
  [][C13_ChangeStep /\ C13_CallbackStep /\ C13_OtherStep]_vars

C13_Witness ==
  /\ cbFrom # NoConnection /\ cbArg = [state |-> "connected"]
  /\ rtc_state_ = "connected"
  /\ nRead = 1 /\ pc = "idle" /\ Len(sent) = 0

\* C14 as stated: once a read has completed with an error or the remote
\* close, the session is torn down: it holds no handle, no handle it created
\* is live, the watchdog is disarmed with no callback due, and nothing is
\* sent in any later step.
C14_TornDown ==
  closed =>
    /\ connection_ = NoConnection /\ live = {}
    /\ ~watchdog_.armed /\ wpc = "idle"

C14_Terminated == []C14_TornDown /\ [][closed => sent' = sent]_vars

\* C15 as stated: OnRead and the engine's callbacks exclude each other: a
\* step that delivers onIceCandidate, onIceConnectionStateChange, the
\* local-description-ready or the answer-ready callback is taken only while
\* no OnRead is between its statements.
C15_IsCallbackStep ==
  \/ cbFrom' # NoConnection
  \/ pendLocal' # pendLocal /\ pendLocal' \subseteq pendLocal
  \/ pendAnswer' # pendAnswer /\ pendAnswer' \subseteq pendAnswer

C15_MutualExclusion == [][C15_IsCallbackStep => pc = "idle"]_vars

\* C16: an answer whose sdp is a string, or a candidate whose ice object has
\* a string sdpMid, an int sdpMLineIndex and a string candidate, received
\* while the session holds a handle, makes exactly one engine call in the
\* step of its OnRead: setAnswer with that sdp, or addIceCandidate with those
\* three values, on the session's handle, appended to the calls made so far
\* (so the calls keep the arrival order), whether or not the answer to the
\* offer has been sent.
C16_Answers ==
  {x \in TextsOfType("answer") :
     "sdp" \in DOMAIN x.doc.f /\ x.doc.f.sdp.k = "string"}

C16_Candidates ==
  {x \in TextsOfType("candidate") :
     /\ "ice" \in DOMAIN x.doc.f
     /\ x.doc.f.ice.k = "object"
     /\ {"sdpMid", "sdpMLineIndex", "candidate"} \subseteq DOMAIN x.doc.f.ice.f
     /\ x.doc.f.ice.f.sdpMid.k = "string"
     /\ x.doc.f.ice.f.sdpMLineIndex.k = "integer"
     /\ x.doc.f.ice.f.candidate.k = "string"}

C16_AnswerStep ==
  recv' \in C16_Answers /\ connection_ # NoConnection =>
    /\ calls' = Append(calls, [op |-> "setAnswer", h |-> connection_,
                               sdp |-> recv'.doc.f.sdp.s])
    /\ UNCHANGED <<connection_, live, sent>>

C16_CandidateStep ==
  recv' \in C16_Candidates /\ connection_ # NoConnection =>
    /\ calls' = Append(calls,
                       [op |-> "addIceCandidate", h |-> connection_,
                        sdpMid |-> recv'.doc.f.ice.f.sdpMid.s,
                        sdpMLineIndex |-> recv'.doc.f.ice.f.sdpMLineIndex.i,
                        candidate |-> recv'.doc.f.ice.f.candidate.s])
    /\ UNCHANGED <<connection_, live, sent>>

C16_Forwarded == [][C16_AnswerStep /\ C16_CandidateStep]_vars

\* offer, answer, candidate, all before the engine delivered any callback
C16_Witness ==
  /\ nRead = 3 /\ recv \in C16_Candidates
  /\ connection_ = 1 /\ 1 \in pendLocal /\ AnswersSent = 0
  /\ Len(calls) = 5
  /\ calls[4].op = "setAnswer" /\ calls[4].h = 1
  /\ calls[5].op = "addIceCandidate" /\ calls[5].h = 1

\* C17 as stated: an offer or answer whose sdp is absent or no string, and a
\* candidate whose ice is absent or no object, whose sdpMid or candidate is
\* absent or no string, or whose sdpMLineIndex is absent or no integer, is
\* discarded: its OnRead makes no engine call, creates no connection, sends
\* nothing and leaves the handle as it was.
C17_NoString(fields, key) ==
  key \notin DOMAIN fields \/ fields[key].k # "string"

C17_NoInteger(fields, key) ==
  key \notin DOMAIN fields
  \/ fields[key].k \notin {"integer", "big_integer"}

C17_Mistyped ==
  {x \in TextsOfType("offer") \cup TextsOfType("answer") :
     C17_NoString(x.doc.f, "sdp")}
  \cup {x \in TextsOfType("candidate") :
          \/ "ice" \notin DOMAIN x.doc.f
          \/ x.doc.f.ice.k # "object"
          \/ x.doc.f.ice.k = "object"
               /\ \/ C17_NoString(x.doc.f.ice.f, "sdpMid")
                  \/ C17_NoString(x.doc.f.ice.f, "candidate")
                  \/ C17_NoInteger(x.doc.f.ice.f, "sdpMLineIndex")}

C17_Discarded ==
  [][recv' \in C17_Mistyped =>
       UNCHANGED <<calls, connection_, live, offers, sent>>]_vars

\* C18 as stated: the step that delivers the local-description-ready
\* callback of the offer set on handle h calls createAnswer on h itself, so
\* never on a null handle and never on the handle of a later offer.
C18_CallbackStep ==
  \A h \in pendLocal :
    pendLocal' = pendLocal \ {h} =>
      /\ calls' = Append(calls, [op |-> "createAnswer", h |-> h])
      /\ ~crashed'

C18_AnswerOnOfferHandle == [][C18_CallbackStep]_vars

\* C19: no ping is sent before a register has been processed: the accept
\* message is sent only by the OnRead of a register, every ping in the log
\* of sent messages comes after an accept, and the watchdog is armed or its
\* callback due only when an accept has been sent.
C19_Registered == \E i \in DOMAIN sent : sent[i] = C9_Accept

C19_AcceptStep ==
  Len(sent') > Len(sent) /\ sent'[Len(sent')] = C9_Accept =>
    recv' \in TextsOfType("register")

C19_PingAfterAccept ==
  \A j \in DOMAIN sent :
    sent[j] = C10_Ping => \E i \in 1..(j - 1) : sent[i] = C9_Accept

C19_NoPingBeforeRegister ==
  /\ [][C19_AcceptStep]_vars
  /\ [](C19_PingAfterAccept)
  /\ [](watchdog_.armed \/ wpc = "expired" => C19_Registered)

C19_Witness ==
  /\ Len(sent) = 2 /\ sent[1] = C9_Accept /\ sent[2] = C10_Ping
  /\ recv = NoText /\ wpc = "idle"

\* C20: the OnRead of any text that is no register, and the later steps of
\* an offer, leave the watchdog and its due callback as they were; so a
\* close or bye received after a register leaves the watchdog armed, and
\* with the timer and the io_context making progress a further ping is sent
\* after it (up to the bound on pings) unless the process has died.
C20_Closes == TextsOfType("close") \cup TextsOfType("bye")

C20_InboundStep ==
  \/ recv' # NoText /\ recv' \notin TextsOfType("register")
  \/ pc \in {"created", "assigned"} /\ pc' # pc

C20_WatchdogKept ==
  /\ [][C20_InboundStep => UNCHANGED <<watchdog_, wpc>>]_vars
  /\ \A k \in 0..(MaxPings - 1) :
       (recv \in C20_Closes /\ watchdog_.interval # 0 /\ C10_Pings = k)
         ~> (C10_Pings > k \/ crashed)

\* a close has just released the handle of an offer, after a register
C20_Witness ==
  /\ recv \in C20_Closes
  /\ Len(offers) = 1 /\ offers[1].closeSeen /\ connection_ = NoConnection
  /\ watchdog_ = [interval |-> 30, armed |-> TRUE] /\ wpc = "idle"
  /\ C19_Registered
====
